---- MODULE Spec2Model ----
(***************************************************************************)
(* State-machine model of the OI dashboard's background acquisition        *)
(* engine: the rotation scheduler (app.py, background_scan_loop), the meta *)
(* key/value store (database.py), the scripts that add and remove stock    *)
(* rows (seed.py, seed_from_csv.py, clean_db.py), the admin route that     *)
(* rewrites the runtime configuration (app.py, admin) and the retrying GET *)
(* of the source client (data_fetcher.py, requests_get_with_retry).        *)
(*                                                                         *)
(* Encoding of Python values: a value that may be None, absent or unbound  *)
(* is a tuple, <<>> for None/absent/unbound and <<n>> for the value n.     *)
(* A meta row stores str(n); int(row.value) gives n back, written IntOf.   *)
(***************************************************************************)
EXTENDS Integers, Sequences, FiniteSets, TLC

\* ----------------------------------------------------------------- bounds
MaxStocks == 3      \* rows of the stocks table
MaxBatch == 3       \* largest batch size an operator stores
MaxInterval == 1    \* largest scan interval an operator stores
MaxCycles == 2      \* scheduler cycles explored
MaxElapsed == 1     \* seconds a cycle may have taken when it reaches sleep
MaxFetches == 2     \* calls of fetch_oi_data explored
MaxStrike == 3      \* strikes of a payload are 1..MaxStrike
MaxOI == 1          \* open interest of one side of a strike is 0..MaxOI
MaxPrice == 2       \* prices of the underlying are 1..MaxPrice
MaxEvents == 2      \* sampling events explored
MaxRecords == 3     \* rows of one stock the page resamples
MaxDays == 2        \* dates of the rows are 1..MaxDays
MaxMinute == 3      \* times of day of the rows are minutes 0..MaxMinute
\* app.py 137: the parameters of background_scan_loop, the defaults of a cycle
\* (scaled down)
interval_seconds == 2
batch_size == 2

\* data_fetcher.py 16: attempts of one retrying GET
max_retries == 4

\* data_fetcher.py 90: the value calculate_max_pain returns for no result, 0.0
NoMaxPain == 0

\* app.py 61: the width of a bin, in minutes
bin_minutes == 3

\* valid symbols; "" stands for a missing or empty symbol
Symbols == {"A", "B"}
CsvSymbols == Symbols \cup {""}
\* seed.py 7: the symbols seeded at start-up (scaled down)
SeedSymbols == <<"A", "B">>

VARIABLES
    stocks,            \* stocks table in id order: <<[id, symbol], ...>>
    meta,              \* meta table: key -> <<>> (no row) or <<n>> (value str(n))
    pc,                \* position of the scanner thread in background_scan_loop
    cycle,             \* number of cycles begun; also the model's clock
    runtime_interval,  \* local: <<>> while unbound, else <<seconds>>
    runtime_batch,     \* local
    total,             \* local
    last_index_val,    \* local: the cursor row read at 175, <<>> when there is none
    start_idx,         \* local
    batch,             \* local: the rows of the batch, in the order of the query
    todo,              \* positions of batch the shuffled for-loop has not reached
    processed,         \* local
    first_failure,     \* log of the cycle: <<>> or <<k>>, the k-th attempt was the first to fail
    db_open,           \* the session bound to local db is open
    sleep_for,         \* local: <<>> or <<seconds slept at the end of the cycle>>
    selected,          \* history: ids selected, in query order, since the last disruption
    nsel,              \* history: number of selections recorded in selected
    g_pc,              \* requests_get_with_retry: "idle", "loop", "returned", "raised"
    attempt,           \* requests_get_with_retry: loop variable
    requests,          \* upstream requests issued by the call, with their outcomes
    last_exc,          \* local: <<>> or <<k>>, the exception raised by request k
    response,          \* value returned to the caller: <<>> or <<k>>, response k
    raised,            \* error raised to the caller: <<>>, <<k>> or <<0>> (TypeError)
    fetch_symbol,      \* fetch_oi_data: the symbol of the call under way, "" before the first
    fetched,           \* history: symbol -> calls of fetch_oi_data begun
    upstream,          \* history: symbol -> option-chain requests sent upstream
    have_payload,      \* history: symbols whose option chain a call has returned
    cookie_requests,   \* history: calls of get_nse_cookies, one GET of the homepage each
    full_data,         \* calculate_max_pain: the payload it is called with
    max_pain,          \* calculate_max_pain: <<>> before the call, else <<outcome>>
    oi_data,           \* oi_data table in id order (Snapshots)
    option_chain_data, \* option_chain_data table in id order (StrikeSnapshots)
    events,            \* history: the sampling events, <<[symbol, data], ...>>
    caller,            \* per caller of the ingestion: its position and locals
    records,           \* stock_analysis: the rows the query at app.py 34 returns
    sampled,           \* stock_analysis: <<>> before the resample, else <<its rows>>
    chart_args,        \* generate_oi_change_chart: symbol, time_range_minutes and the clock
    chart              \* generate_oi_change_chart: <<>> before the call, else <<result>>

schedVars == <<stocks, meta, pc, cycle, runtime_interval, runtime_batch, total,
               last_index_val, start_idx, batch, todo, processed, first_failure, db_open,
               sleep_for>>
histVars == <<selected, nsel>>
getVars == <<g_pc, attempt, requests, last_exc, response, raised>>
fetchLog == <<fetch_symbol, fetched, upstream, have_payload, cookie_requests>>
fetchVars == <<getVars, fetchLog>>
painVars == <<full_data, max_pain>>
ingestVars == <<oi_data, option_chain_data, events, caller>>
resampleVars == <<records, sampled>>
chartVars == <<chart_args, chart>>
vars == <<schedVars, histVars, fetchVars, painVars, ingestVars, resampleVars, chartVars>>

\* the scheduler's state but the stocks table
schedRest == <<meta, pc, cycle, runtime_interval, runtime_batch, total,
               last_index_val, start_idx, batch, todo, processed, first_failure, db_open,
               sleep_for>>

locals == <<runtime_interval, runtime_batch, total, last_index_val, start_idx,
            batch, todo, processed, first_failure, sleep_for>>

\* ------------------------------------------------------------ pure helpers
Min(a, b) == IF a < b THEN a ELSE b
Max(a, b) == IF a > b THEN a ELSE b

None == <<>>
Some(n) == <<n>>
\* int(row.value) of a row that exists
IntOf(v) == v[1]

MetaKeys == {"last_scan_index", "last_run_time", "oi_scan_interval", "oi_batch_size"}

\* database.py 93-100: insert or update the row, then commit
set_meta(m, key, value) == [m EXCEPT ![key] = Some(value)]

\* app.py 153-156, 162-165, 177: the stored value if the row exists, else the default
ConfigOr(v, default) == IF v # None THEN IntOf(v) ELSE default

\* app.py 152-167: a failed read of a config row falls back to the default
ReadConfig(m, key, default, read_ok) ==
    IF read_ok THEN ConfigOr(m[key], default) ELSE default

\* SQL OFFSET k and LIMIT n on an id-ordered result
Offset(s, k) == SubSeq(s, k + 1, Len(s))
Limit(s, n) == SubSeq(s, 1, Min(n, Len(s)))

\* app.py 181-190: the batch slice with wrap-around, before the shuffle
SelectBatch(rows, start, size, count) ==
    LET end_idx == start + size
    IN  IF end_idx <= count
        THEN Limit(Offset(rows, start), size)
        ELSE Limit(Offset(rows, start), count - start) \o Limit(rows, end_idx - count)

\* app.py 212
NewIndexNoModulo(start, done, count) == start + done
NewIndex(start, done, count) == (start + done) % count

Ids(s) == [i \in 1..Len(s) |-> s[i].id]

\* SQLite rowid of a new row: one more than the largest id in the table
NextId(rows) == IF rows = <<>> THEN 1 ELSE rows[Len(rows)].id + 1

HasSymbol(rows, sym) == \E i \in 1..Len(rows) : rows[i].symbol = sym

\* data_fetcher.py 148-153: look the symbol up, insert the row when it is missing
GetOrCreateStock(rows, sym) ==
    IF HasSymbol(rows, sym) THEN rows
    ELSE Append(rows, [id |-> NextId(rows), symbol |-> sym])

\* seed.py 3-20: add every seed symbol that has no row yet
RECURSIVE SeedFrom(_, _)
SeedFrom(rows, k) ==
    IF k > Len(SeedSymbols) THEN rows
    ELSE SeedFrom(GetOrCreateStock(rows, SeedSymbols[k]), k + 1)
seed_stocks(rows) == SeedFrom(rows, 1)

\* ------------------------------------------------------------ the payload
\* The JSON document of the option-chain endpoint, as far as the program reads
\* it.  records is "no_payload" (None or {}), "missing" (no 'records' key),
\* "null" or "present"; underlyingValue and the two totOI of 'filtered' are
\* <<>> (absent) or <<n>>; expiryDates is "missing", "empty" or "present", and
\* then its first entry is "E1"; data is <<>> (no 'data' key) or <<rows>>.
\* A strike row has expiryDate, strikePrice (0: absent, null or zero) and the
\* sides CE and PE; a side is a missing key, null, or an object whose
\* openInterest is absent, null or a number.
SideMissing == [kind |-> "missing", oi_kind |-> "absent", oi |-> 0]
SideNull == [kind |-> "null", oi_kind |-> "absent", oi |-> 0]
SideNoOI == [kind |-> "object", oi_kind |-> "absent", oi |-> 0]
SideNullOI == [kind |-> "object", oi_kind |-> "null", oi |-> 0]
SideOI(n) == [kind |-> "object", oi_kind |-> "value", oi |-> n]

StrikeRow(expiry, strike, ce, pe) ==
    [expiryDate |-> expiry, strikePrice |-> strike, CE |-> ce, PE |-> pe]

Payload(rec, price, ce_tot, pe_tot, expiries, rows) ==
    [records |-> rec, underlyingValue |-> price, ce_totOI |-> ce_tot,
     pe_totOI |-> pe_tot, expiryDates |-> expiries, data |-> rows]

\* data_fetcher.py 98, 104: the rows of the first expiry of the list
OptionChainOf(data) ==
    SelectSeq(data.data[1], LAMBDA r : r.expiryDate = "E1")

\* data_fetcher.py 118-119: record.get(side, {}).get('openInterest', 0); <<>>
\* stands for the None a null openInterest leaves in the dict
OpenInterestOf(side) ==
    IF side.kind = "missing" \/ side.oi_kind = "absent" THEN Some(0)
    ELSE IF side.oi_kind = "null" THEN None
    ELSE Some(side.oi)

\* data_fetcher.py 113-117: the rows the loop does not skip
StrikeRows(chain) == SelectSeq(chain, LAMBDA r : r.strikePrice # 0)

\* data_fetcher.py 118-119 raises AttributeError on a side that is null
LoadRaises(chain) ==
    \E i \in 1..Len(StrikeRows(chain)) :
        StrikeRows(chain)[i].CE.kind = "null" \/ StrikeRows(chain)[i].PE.kind = "null"

\* data_fetcher.py 117: the list strikes, in the order of the payload
StrikesOf(chain) == [i \in 1..Len(StrikeRows(chain)) |-> StrikeRows(chain)[i].strikePrice]

\* data_fetcher.py 118-119, 133, 137: the dict entry of a strike is the one
\* its last row has written
LastRowOf(chain, strike) ==
    LET rows == StrikeRows(chain)
        at == CHOOSE i \in 1..Len(rows) :
                  /\ rows[i].strikePrice = strike
                  /\ \A j \in (i + 1)..Len(rows) : rows[j].strikePrice # strike
    IN  rows[at]
ce_oi(chain, strike) == OpenInterestOf(LastRowOf(chain, strike).CE)
pe_oi(chain, strike) == OpenInterestOf(LastRowOf(chain, strike).PE)

\* data_fetcher.py 129-137: the inner loop from position i on, total_loss so
\* far in loss; <<>> when a product with None raises TypeError
RECURSIVE TotalLossFrom(_, _, _, _)
TotalLossFrom(chain, test_strike, i, loss) ==
    LET strikes == StrikesOf(chain)
    IN  IF i > Len(strikes) THEN Some(loss)
        ELSE LET strike == strikes[i]
                 ce == ce_oi(chain, strike)
                 pe == pe_oi(chain, strike)
             IN  IF test_strike > strike
                 THEN IF ce = None THEN None
                      ELSE TotalLossFrom(chain, test_strike, i + 1,
                                         loss + (test_strike - strike) * IntOf(ce))
                 ELSE IF test_strike < strike
                 THEN IF pe = None THEN None
                      ELSE TotalLossFrom(chain, test_strike, i + 1,
                                         loss + (strike - test_strike) * IntOf(pe))
                 ELSE TotalLossFrom(chain, test_strike, i + 1, loss)
total_loss(chain, test_strike) == TotalLossFrom(chain, test_strike, 1, 0)

\* what calculate_max_pain comes to: a returned value or a raised exception
Returns(v) == [raised |-> FALSE, value |-> v]
Raises == [raised |-> TRUE, value |-> NoMaxPain]

\* data_fetcher.py 139: the comparison that keeps a candidate; min_loss is <<>>
\* while it is float('inf')
KeepsLarger(loss, min_loss) == min_loss = None \/ loss > IntOf(min_loss)
Keeps(loss, min_loss) == min_loss = None \/ loss < IntOf(min_loss)

\* data_fetcher.py 124-143: the outer loop from position i on
RECURSIVE MaxPainFrom(_, _, _, _)
MaxPainFrom(chain, i, min_loss, max_pain_strike) ==
    LET strikes == StrikesOf(chain)
    IN  IF i > Len(strikes) THEN Returns(max_pain_strike)
        ELSE LET loss == total_loss(chain, strikes[i])
             IN  IF loss = None THEN Raises
                 ELSE IF Keeps(IntOf(loss), min_loss)
                 THEN MaxPainFrom(chain, i + 1, loss, strikes[i])
                 ELSE MaxPainFrom(chain, i + 1, min_loss, max_pain_strike)

\* data_fetcher.py 81-143
calculate_max_pain(data) ==
    IF data.records \in {"no_payload", "missing"} THEN Returns(NoMaxPain)
    ELSE IF data.records = "null" THEN Raises
    ELSE IF data.expiryDates # "present" THEN Returns(NoMaxPain)
    ELSE IF data.data = None THEN Returns(NoMaxPain)
    ELSE IF OptionChainOf(data) = <<>> THEN Returns(NoMaxPain)
    ELSE IF LoadRaises(OptionChainOf(data)) THEN Raises
    ELSE IF StrikesOf(OptionChainOf(data)) = <<>> THEN Returns(NoMaxPain)
    ELSE MaxPainFrom(OptionChainOf(data), 1, None, NoMaxPain)

\* strike tables of the first expiry with every open interest a number: the
\* strikes of strikeSet in the order f, call and put open interest c and q
Orders(strikeSet) ==
    { f \in [1..Cardinality(strikeSet) -> strikeSet] :
          \A i, j \in 1..Cardinality(strikeSet) : i # j => f[i] # f[j] }
StrikeTable(strikeSet, f, c, q) ==
    [i \in 1..Cardinality(strikeSet) |->
         StrikeRow("E1", f[i], SideOI(c[f[i]]), SideOI(q[f[i]]))]

\* a payload that has a strike table
TablePayload(rows) == Payload("present", Some(1), Some(1), Some(1), "present", Some(rows))

\* payloads without a strike table, or with a row that is not well formed
GoodRow(k) == StrikeRow("E1", k, SideOI(1), SideOI(1))
BrokenRows ==
    { <<>>,
      <<StrikeRow("E2", 1, SideOI(1), SideOI(1))>>,
      <<StrikeRow("E1", 0, SideOI(1), SideOI(1))>>,
      <<StrikeRow("E1", 0, SideNull, SideOI(1)), GoodRow(1)>>,
      <<StrikeRow("E1", 1, SideMissing, SideNoOI), GoodRow(2)>>,
      <<StrikeRow("E1", 1, SideNull, SideOI(1)), GoodRow(2)>>,
      <<GoodRow(1), StrikeRow("E1", 2, SideOI(1), SideNull)>>,
      <<StrikeRow("E1", 1, SideNullOI, SideOI(1))>>,
      <<StrikeRow("E1", 1, SideNullOI, SideOI(1)), GoodRow(2)>>,
      <<GoodRow(1), StrikeRow("E1", 2, SideOI(1), SideNullOI)>>,
      <<StrikeRow("E1", 2, SideOI(1), SideNullOI), GoodRow(1)>> }
BrokenPayloads ==
    { Payload(rec, Some(1), Some(1), Some(1), "missing", None) :
          rec \in {"no_payload", "missing", "null"} }
    \cup { Payload("present", Some(1), Some(1), Some(1), e, Some(<<GoodRow(1)>>)) :
          e \in {"missing", "empty"} }
    \cup { Payload("present", Some(1), Some(1), Some(1), "present", None) }
    \cup { Payload("present", Some(1), Some(1), Some(1), "present", Some(rows)) :
          rows \in BrokenRows }

\* the call: full_data holds the argument, max_pain receives the outcome
CalculateMaxPain ==
    /\ max_pain = None
    /\ max_pain' = Some(calculate_max_pain(full_data))
    /\ UNCHANGED full_data

\* ------------------------------------------------------------------- Init
\* stocks tables a database file may hold: ids ascending, non-empty symbols unique
StockTables ==
    { s \in UNION { [1..n -> [id : 1..MaxStocks, symbol : CsvSymbols]] : n \in 0..MaxStocks } :
        /\ \A i \in 1..Len(s) : s[i].id = i
        /\ \A i, j \in 1..Len(s) :
              (i # j /\ s[i].symbol # "") => s[i].symbol # s[j].symbol }

MetaWith(c, b) ==
    [k \in MetaKeys |-> CASE k = "last_scan_index" -> c
                          [] k = "oi_batch_size" -> b
                          [] OTHER -> None]

InitLocals ==
    /\ pc = "start"
    /\ cycle = 0
    /\ runtime_interval = None
    /\ runtime_batch = 0
    /\ total = 0
    /\ last_index_val = None
    /\ start_idx = 0
    /\ batch = <<>>
    /\ todo = {}
    /\ processed = 0
    /\ first_failure = None
    /\ db_open = FALSE
    /\ sleep_for = None
    /\ selected = <<>>
    /\ nsel = 0

InitFetch ==
    /\ g_pc = "idle"
    /\ attempt = 1
    /\ requests = <<>>
    /\ last_exc = None
    /\ response = None
    /\ raised = None
    /\ fetch_symbol = ""
    /\ fetched = [s \in Symbols |-> 0]
    /\ upstream = [s \in Symbols |-> 0]
    /\ have_payload = {}
    /\ cookie_requests = 0

InitPain ==
    /\ full_data = Payload("no_payload", None, None, None, "missing", None)
    /\ max_pain = None

\* the callers of the ingestion: the scanner thread (app.py 199-205) and the
\* route /fetch_and_update_data (app.py 122-134)
Callers == {"scanner", "route"}
AtRest == [pc |-> "idle", symbol |-> "", data |-> Payload("no_payload", None, None, None, "missing", None),
           event |-> 0, last |-> None, max_pain |-> NoMaxPain]

\* dashboard.py 445: the time range of the button Full Day
FullDay == 999999

\* the chart has not been requested
InitChart ==
    /\ chart_args = [symbol |-> "", time_range_minutes |-> FullDay, date |-> 0, minute |-> 0]
    /\ chart = None

\* stock_analysis has not been requested
InitResample ==
    /\ records = <<>>
    /\ sampled = None

\* database.py 58-59: init_db creates the two tables empty
InitIngest ==
    /\ oi_data = <<>>
    /\ option_chain_data = <<>>
    /\ events = <<>>
    /\ caller = [c \in Callers |-> AtRest]

\* background_scan_loop assumes nothing of the tables it starts on: any stocks
\* table, any cursor a run on a larger table has left, any stored batch size
Init ==
    /\ stocks \in StockTables
    /\ meta \in { MetaWith(c, b) :
                    c \in {None} \cup {Some(n) : n \in 0..MaxStocks - 1},
                    b \in {None} \cup {Some(n) : n \in 1..MaxBatch} }
    /\ InitLocals
    /\ InitFetch
    /\ InitPain
    /\ InitIngest
    /\ InitResample
    /\ InitChart

\* a fresh database, before or after seed_stocks has run
InitFresh ==
    /\ stocks \in {<<>>, seed_stocks(<<>>)}
    /\ meta = MetaWith(None, None)
    /\ InitLocals
    /\ InitFetch
    /\ InitPain
    /\ InitIngest
    /\ InitResample
    /\ InitChart

\* ------------------------------------------------------- rotation scheduler
\* app.py 147-193, total > 0: open the session, read the configuration, count
\* the stocks, read the cursor, select the batch and shuffle it.  The order
\* random.shuffle leaves is drawn element by element by the loop (Attempt).
BeginCycle ==
    /\ pc = "start" /\ cycle < MaxCycles
    /\ Len(stocks) > 0
    /\ \E i_ok, b_ok \in BOOLEAN :
        LET ri == ReadConfig(meta, "oi_scan_interval", interval_seconds, i_ok)
            rb == ReadConfig(meta, "oi_batch_size", batch_size, b_ok)
            count == Len(stocks)
            st == ConfigOr(meta["last_scan_index"], 0) % count
            slice == SelectBatch(stocks, st, rb, count)
        IN  /\ runtime_interval' = Some(ri)
            /\ runtime_batch' = rb
            /\ total' = count
            /\ last_index_val' = meta["last_scan_index"]
            /\ start_idx' = st
            /\ batch' = slice
            /\ todo' = 1..Len(slice)
            /\ pc' = IF slice = <<>> THEN "commit_cursor" ELSE "process"
    /\ cycle' = cycle + 1
    /\ processed' = 0
    /\ first_failure' = None
    /\ sleep_for' = None
    /\ db_open' = TRUE
    /\ UNCHANGED <<stocks, meta>>

\* app.py 147-172, total == 0: close the session, sleep, continue
BeginCycleEmpty ==
    /\ pc = "start" /\ cycle < MaxCycles
    /\ Len(stocks) = 0
    /\ \E i_ok, b_ok \in BOOLEAN :
        LET ri == ReadConfig(meta, "oi_scan_interval", interval_seconds, i_ok)
            rb == ReadConfig(meta, "oi_batch_size", batch_size, b_ok)
        IN  /\ runtime_interval' = Some(ri)
            /\ runtime_batch' = rb
            /\ sleep_for' = Some(ri)
    /\ cycle' = cycle + 1
    /\ total' = 0
    /\ db_open' = FALSE
    /\ pc' = "start"
    /\ UNCHANGED <<stocks, meta, last_index_val, start_idx, batch, todo,
                   processed, first_failure>>

\* app.py 149 raises: nothing of the cycle has been assigned; handler at 235
BeginCycleSessionError ==
    /\ pc = "start" /\ cycle < MaxCycles
    /\ cycle' = cycle + 1
    /\ pc' = "sleep"
    /\ UNCHANGED <<stocks, meta, locals, db_open>>

\* app.py 168-190 raises (count, cursor or batch query): the configuration has
\* been read, the session stays open; handler at 235
BeginCycleQueryError ==
    /\ pc = "start" /\ cycle < MaxCycles
    /\ \E i_ok, b_ok \in BOOLEAN :
        /\ runtime_interval' =
              Some(ReadConfig(meta, "oi_scan_interval", interval_seconds, i_ok))
        /\ runtime_batch' = ReadConfig(meta, "oi_batch_size", batch_size, b_ok)
    /\ cycle' = cycle + 1
    /\ db_open' = TRUE
    /\ sleep_for' = None
    /\ pc' = "sleep"
    /\ UNCHANGED <<stocks, meta, total, last_index_val, start_idx, batch, todo,
                   processed, first_failure>>

\* what one fetch-and-ingest attempt may come to: fetch_oi_data raises
\* (app.py 204), process_and_save_oi_data logs an error of its own and returns
\* (data_fetcher.py 244), or both calls store their rows
Outcomes == {"ok", "fetch_failed", "ingest_failed"}

\* app.py 196-209: the iteration of the for-loop that handles batch[i]
LoopStep(i, outcome) ==
    /\ IF batch[i].symbol = ""
       THEN \* 197-198: continue
            UNCHANGED <<stocks, processed, first_failure>>
       ELSE /\ stocks' = IF outcome = "fetch_failed" THEN stocks
                         ELSE GetOrCreateStock(stocks, batch[i].symbol)
            /\ first_failure' = IF outcome # "ok" /\ first_failure = None
                              THEN Some(processed + 1) ELSE first_failure
            /\ processed' = processed + 1
    /\ todo' = todo \ {i}
    /\ pc' = IF todo \ {i} = {} THEN "commit_cursor" ELSE "process"
    /\ UNCHANGED <<cycle, runtime_interval, runtime_batch, total, last_index_val,
                   start_idx, batch, db_open, sleep_for>>

\* a loop that saves the cursor after every instrument
AttemptSavingCursor ==
    /\ pc = "process"
    /\ \E i \in todo, outcome \in Outcomes :
        /\ LoopStep(i, outcome)
        /\ meta' = set_meta(meta, "last_scan_index",
                            NewIndex(start_idx, processed', total))

\* a loop without the try/except of 199-205: a fetch error reaches the handler at 235
AttemptAbortOnFailure ==
    /\ pc = "process"
    /\ \E i \in todo, outcome \in Outcomes :
        IF outcome = "fetch_failed" /\ batch[i].symbol # ""
        THEN /\ pc' = "sleep"
             /\ UNCHANGED <<stocks, meta, cycle, locals, db_open>>
        ELSE LoopStep(i, outcome) /\ UNCHANGED meta

\* app.py 193-209: the next element of the shuffled batch
Attempt ==
    /\ pc = "process"
    /\ \E i \in todo, outcome \in Outcomes :
        LoopStep(i, outcome) /\ UNCHANGED meta

\* app.py 212-214: set_meta(db, 'last_scan_index', ...) commits or raises
CommitCursor ==
    /\ pc = "commit_cursor"
    /\ \E ok \in BOOLEAN :
        IF ok
        THEN /\ meta' = set_meta(meta, "last_scan_index",
                                 NewIndex(start_idx, processed, total))
             /\ pc' = "commit_time"
        ELSE /\ meta' = meta
             /\ pc' = "fallback"
    /\ UNCHANGED <<stocks, cycle, locals, db_open>>

\* app.py 215, 232-233: set_meta(db, 'last_run_time', ...) commits or raises
CommitTime ==
    /\ pc = "commit_time"
    /\ \E ok \in BOOLEAN :
        IF ok
        THEN /\ meta' = set_meta(meta, "last_run_time", cycle)
             /\ db_open' = FALSE
             /\ pc' = "sleep"
        ELSE /\ meta' = meta
             /\ db_open' = db_open
             /\ pc' = "fallback"
    /\ UNCHANGED <<stocks, cycle, locals>>

\* app.py 216-233: the manual update of both rows in one commit, which may raise
\* too (handler at 235); the finally clause closes the session either way
Fallback ==
    /\ pc = "fallback"
    /\ \E ok \in BOOLEAN :
        meta' = IF ok
                THEN set_meta(set_meta(meta, "last_scan_index",
                                       NewIndex(start_idx, processed, total)),
                              "last_run_time", cycle)
                ELSE meta
    /\ db_open' = FALSE
    /\ pc' = "sleep"
    /\ UNCHANGED <<stocks, cycle, locals>>

\* app.py 239: the interval the sleep is computed from
SleepIntervalReread(m, ri) == ConfigOr(m["oi_scan_interval"], interval_seconds)
SleepInterval(m, ri) == IntOf(ri)

\* app.py 238-242.  An unbound runtime_interval raises UnboundLocalError outside
\* the try block, which ends background_scan_loop.  The other locals of the
\* cycle are dead here (each is assigned at 147-195 before it is read again)
\* and are cleared.
Sleep ==
    /\ pc = "sleep"
    /\ IF runtime_interval = None
       THEN /\ pc' = "dead"
            /\ sleep_for' = sleep_for
       ELSE /\ \E elapsed \in 0..MaxElapsed :
                sleep_for' = Some(Max(0, SleepInterval(meta, runtime_interval) - elapsed))
            /\ pc' = "start"
    /\ runtime_batch' = 0
    /\ total' = 0
    /\ last_index_val' = None
    /\ start_idx' = 0
    /\ batch' = <<>>
    /\ todo' = {}
    /\ processed' = 0
    /\ first_failure' = None
    /\ UNCHANGED <<stocks, meta, cycle, runtime_interval, db_open>>

\* app.py 245-261: the process is killed at any point and started again; the
\* new background_scan_loop has no local bound, only the database survives
CrashRestart ==
    /\ pc # "start" \/ runtime_interval # None
    /\ pc' = "start"
    /\ runtime_interval' = None
    /\ runtime_batch' = 0
    /\ total' = 0
    /\ last_index_val' = None
    /\ start_idx' = 0
    /\ batch' = <<>>
    /\ todo' = {}
    /\ processed' = 0
    /\ first_failure' = None
    /\ sleep_for' = None
    /\ db_open' = FALSE
    /\ UNCHANGED <<stocks, meta, cycle>>

\* ------------------------------------------------- writers beside the scanner
\* app.py 281-304, POST: each parameter present in the payload is stored with
\* set_meta as str(int(value)); a parameter left out keeps its row
AdminPost ==
    /\ \E interval \in {None} \cup {Some(n) : n \in 0..MaxInterval},
          batch_arg \in {None} \cup {Some(n) : n \in 1..MaxBatch} :
        /\ interval # None \/ batch_arg # None
        /\ LET m1 == IF interval # None
                     THEN set_meta(meta, "oi_scan_interval", IntOf(interval))
                     ELSE meta
           IN  meta' = IF batch_arg # None
                       THEN set_meta(m1, "oi_batch_size", IntOf(batch_arg))
                       ELSE m1
    /\ UNCHANGED <<stocks, pc, cycle, locals, db_open>>

\* seed_from_csv.py 4-48 on a file of one row, run between two cycles: the row's
\* symbol gets a stocks row unless the lookup at 20 finds one.  A missing symbol
\* is stored as NULL, which the lookup never matches.
seed_from_csv ==
    /\ pc = "start"
    /\ Len(stocks) < MaxStocks
    /\ \E sym \in CsvSymbols :
        stocks' = IF sym = ""
                  THEN Append(stocks, [id |-> NextId(stocks), symbol |-> sym])
                  ELSE GetOrCreateStock(stocks, sym)
    /\ UNCHANGED <<meta, pc, cycle, locals, db_open>>

\* clean_db.py 3-21, run between two cycles: delete the rows without a symbol
clean_db ==
    /\ pc = "start"
    /\ stocks' = SelectSeq(stocks, LAMBDA r : r.symbol # "")
    /\ UNCHANGED <<meta, pc, cycle, locals, db_open>>

\* ------------------------------------------------------------ source client
\* data_fetcher.py 22: range(1, max_retries + 1)
AttemptsRangeOneMore(n) == 1..(n + 1)
AttemptsRange(n) == 1..n

\* what one upstream request may come to: status 200; a status that
\* raise_for_status turns into HTTPError; any other status, which
\* raise_for_status lets pass; an exception raised by the GET itself
Replies == {"200", "error_status", "other_status", "exception"}

\* data_fetcher.py 16-21: a caller enters requests_get_with_retry
Call ==
    /\ g_pc # "loop"
    /\ g_pc' = "loop"
    /\ attempt' = 1
    /\ requests' = <<>>
    /\ last_exc' = None
    /\ response' = None
    /\ raised' = None

\* data_fetcher.py 22-37: one iteration of the loop
Get ==
    /\ g_pc = "loop"
    /\ attempt \in AttemptsRange(max_retries)
    /\ \E reply \in Replies :
        /\ requests' = Append(requests, reply)
        /\ response' = IF reply = "200" THEN Some(attempt) ELSE response
        /\ g_pc' = IF reply = "200" THEN "returned" ELSE "loop"
        /\ last_exc' = IF reply \in {"error_status", "exception"}
                       THEN Some(attempt) ELSE last_exc
        /\ attempt' = IF reply = "200" THEN attempt ELSE attempt + 1
    /\ UNCHANGED raised

\* data_fetcher.py 38-39: raise last_exc; raising None is a TypeError, <<0>>
RaiseLast ==
    /\ g_pc = "loop"
    /\ attempt \notin AttemptsRange(max_retries)
    /\ raised' = IF last_exc = None THEN Some(0) ELSE last_exc
    /\ g_pc' = "raised"
    /\ UNCHANGED <<attempt, requests, last_exc, response>>

\* history of the selections: the first `total` ids selected in a row of cycles
\* that ran on the stored batch size and committed; any other cycle, and a
\* restart, begins the history anew
ResetSelection ==
    /\ selected' = <<>>
    /\ nsel' = 0
RecordSelection ==
    IF runtime_batch' = ConfigOr(meta["oi_batch_size"], batch_size)
    THEN /\ selected' = SubSeq(selected \o Ids(batch'), 1,
                               Min(Len(selected) + Len(batch'), total'))
         /\ nsel' = nsel + 1
    ELSE ResetSelection

\* a scheduler step that leaves the history and the source client alone
Plain(A) == A /\ UNCHANGED <<histVars, fetchVars, painVars, ingestVars, resampleVars, chartVars>>

Next ==
    \/ BeginCycle /\ RecordSelection /\ UNCHANGED <<fetchVars, painVars, ingestVars, resampleVars, chartVars>>
    \/ Plain(BeginCycleEmpty)
    \/ Plain(BeginCycleSessionError)
    \/ Plain(BeginCycleQueryError)
    \/ Plain(Attempt)
    \/ Plain(CommitCursor)
    \/ Plain(CommitTime)
    \/ Fallback /\ (IF meta' = meta THEN ResetSelection ELSE UNCHANGED histVars)
                /\ UNCHANGED <<fetchVars, painVars, ingestVars, resampleVars, chartVars>>
    \/ Plain(Sleep)
    \/ CrashRestart /\ ResetSelection /\ UNCHANGED <<fetchVars, painVars, ingestVars, resampleVars, chartVars>>

Spec == Init /\ [][Next]_vars

\* the scanner on a fresh database, with the admin route rewriting the configuration
AdminNext ==
    \/ Plain(BeginCycle)
    \/ Plain(BeginCycleEmpty)
    \/ Plain(BeginCycleSessionError)
    \/ Plain(BeginCycleQueryError)
    \/ Plain(Attempt)
    \/ Plain(CommitCursor)
    \/ Plain(CommitTime)
    \/ Plain(Fallback)
    \/ Plain(Sleep)
    \/ Plain(CrashRestart)
    \/ Plain(AdminPost)

AdminSpec == InitFresh /\ [][AdminNext]_vars

\* the scanner on a fresh database, with the scripts that add and delete stocks
StockNext ==
    \/ Plain(BeginCycle)
    \/ Plain(BeginCycleEmpty)
    \/ Plain(BeginCycleSessionError)
    \/ Plain(BeginCycleQueryError)
    \/ Plain(Attempt)
    \/ Plain(CommitCursor)
    \/ Plain(CommitTime)
    \/ Plain(Fallback)
    \/ Plain(Sleep)
    \/ Plain(CrashRestart)
    \/ Plain(seed_from_csv)
    \/ Plain(clean_db)

StockSpec == InitFresh /\ [][StockNext]_vars

\* data_fetcher.py 41-54: one GET of the homepage; its cookies, or {} when the
\* request fails, are returned, and nothing of them is kept between calls
get_nse_cookies(n) == n + 1

\* data_fetcher.py 63-78: a caller (the scanner at app.py 200, the route at
\* app.py 128, the chart at dashboard.py 527) enters fetch_oi_data, which asks
\* for the cookies (64) and goes on to requests_get_with_retry for the symbol's
\* option chain
fetch_oi_data(symbol) ==
    /\ fetched[symbol] < MaxFetches
    /\ Call
    /\ fetch_symbol' = symbol
    /\ fetched' = [fetched EXCEPT ![symbol] = @ + 1]
    /\ cookie_requests' = get_nse_cookies(cookie_requests)
    /\ UNCHANGED <<upstream, have_payload>>

\* data_fetcher.py 24: the GET is one request to the upstream source
UpstreamGet ==
    /\ Get
    /\ upstream' = [upstream EXCEPT ![fetch_symbol] = @ + 1]
    /\ have_payload' = IF g_pc' = "returned"
                       THEN have_payload \cup {fetch_symbol} ELSE have_payload
    /\ UNCHANGED <<fetch_symbol, fetched, cookie_requests>>

\* calls of fetch_oi_data, the scanner at rest
FetchNext ==
    \/ (\E symbol \in Symbols : fetch_oi_data(symbol))
            /\ UNCHANGED <<schedVars, histVars, painVars, ingestVars, resampleVars, chartVars>>
    \/ UpstreamGet /\ UNCHANGED <<schedVars, histVars, painVars, ingestVars, resampleVars, chartVars>>
    \/ RaiseLast /\ UNCHANGED <<fetchLog, schedVars, histVars, painVars, ingestVars, resampleVars, chartVars>>

FetchSpec == InitFresh /\ [][FetchNext]_vars

\* calculate_max_pain applied to every payload of the bounded sets
InitMaxPain ==
    /\ stocks = seed_stocks(<<>>)
    /\ meta = MetaWith(None, None)
    /\ InitLocals
    /\ InitFetch
    /\ \/ \E strikeSet \in (SUBSET (1..MaxStrike)) \ {{}} :
              \E f \in Orders(strikeSet),
                 c \in [strikeSet -> 0..MaxOI],
                 q \in [strikeSet -> 0..MaxOI] :
                  full_data = TablePayload(StrikeTable(strikeSet, f, c, q))
       \/ full_data \in BrokenPayloads
    /\ max_pain = None
    /\ InitIngest
    /\ InitResample
    /\ InitChart

MaxPainNext == CalculateMaxPain /\ UNCHANGED <<schedVars, histVars, fetchVars, ingestVars, resampleVars, chartVars>>

MaxPainSpec == InitMaxPain /\ [][MaxPainNext]_vars

\* ---------------------------------------------------------------- ingestion
\* payloads that have every field the ingestion reads, for every price and
\* every pair of aggregate open interests of the bounds
CompletePayloads ==
    { Payload("present", Some(p), Some(c), Some(q), "present",
              Some(<<GoodRow(1), GoodRow(2)>>)) :
          p \in 1..MaxPrice, c \in 0..MaxOI, q \in 0..MaxOI }

\* payloads that lack the price, an aggregate open interest, the expiry list
\* or the records
IncompletePayloads ==
    { Payload("present", None, Some(1), Some(1), "present", Some(<<GoodRow(1)>>)),
      Payload("present", Some(1), None, None, "present", Some(<<GoodRow(1)>>)),
      Payload("present", Some(1), Some(1), None, "present", Some(<<GoodRow(1)>>)),
      Payload("present", Some(1), Some(1), Some(1), "missing", Some(<<GoodRow(1)>>)),
      Payload("present", Some(1), Some(1), Some(1), "empty", Some(<<GoodRow(1)>>)),
      Payload("missing", None, None, None, "missing", None),
      Payload("no_payload", None, None, None, "missing", None),
      Payload("null", None, None, None, "missing", None) }

\* payloads with the price, the aggregates and the expiry list whose strike
\* table is absent, empty or has a row that is not well formed
MalformedTables ==
    { Payload("present", Some(1), Some(1), Some(1), "present", None),
      Payload("present", Some(1), Some(1), Some(1), "present", Some(<<>>)),
      Payload("present", Some(1), Some(1), Some(1), "present",
              Some(<<GoodRow(1), StrikeRow("E1", 2, SideOI(1), SideNull)>>)),
      Payload("present", Some(1), Some(1), Some(1), "present",
              Some(<<StrikeRow("E1", 1, SideMissing, SideNoOI), GoodRow(2)>>)),
      Payload("present", Some(1), Some(1), Some(1), "present",
              Some(<<StrikeRow("E1", 1, SideNullOI, SideOI(1)), GoodRow(2)>>)) }

Feed == CompletePayloads \cup IncompletePayloads \cup MalformedTables

StockSymbols == {stocks[i].symbol : i \in 1..Len(stocks)}

\* app.py 128, 200: fetch_oi_data has returned to caller c the payload of a
\* sampling event of a stock
Fetched(c, symbol, data) ==
    /\ caller[c].pc = "idle"
    /\ Len(events) < MaxEvents
    /\ symbol \in StockSymbols \ {""}
    /\ events' = Append(events, [symbol |-> symbol, data |-> data])
    /\ caller' = [caller EXCEPT ![c] = [AtRest EXCEPT !.pc = "process",
                                                       !.symbol = symbol,
                                                       !.data = data,
                                                       !.event = Len(events) + 1]]
    /\ UNCHANGED <<stocks, oi_data, option_chain_data>>

\* data_fetcher.py 200: filter(stock_id).order_by(OIData.id.desc()).first()
RowsOf(rows, symbol) == SelectSeq(rows, LAMBDA r : r.symbol = symbol)
LastOIData(rows, symbol) ==
    IF RowsOf(rows, symbol) = <<>> THEN None
    ELSE Some(RowsOf(rows, symbol)[Len(RowsOf(rows, symbol))])

\* data_fetcher.py 179-197: _to_int(side.get('totOI', 0))
TotOI(v) == IF v = None THEN 0 ELSE IntOf(v)

\* data_fetcher.py 202-210
Change(new, last, old) == IF last = None THEN 0 ELSE new - old

\* data_fetcher.py 212-223
InterpretationByPrice(change_in_ltp, change_in_call_oi) ==
    IF change_in_ltp > 0 THEN "Long Buildup"
    ELSE IF change_in_ltp < 0 THEN "Short Buildup"
    ELSE ""
Interpretation(change_in_ltp, change_in_call_oi) ==
    IF change_in_ltp > 0 /\ change_in_call_oi > 0 THEN "Long Buildup"
    ELSE IF change_in_ltp < 0 /\ change_in_call_oi > 0 THEN "Short Buildup"
    ELSE IF change_in_ltp < 0 /\ change_in_call_oi < 0 THEN "Long Unwinding"
    ELSE IF change_in_ltp > 0 /\ change_in_call_oi < 0 THEN "Short Covering"
    ELSE ""

\* app.py 199-205, 127-132: process_and_save_oi_data has returned to caller c;
\* the scanner goes on to save_option_chain_data, the route to its next stock
Leave(c) ==
    caller' = [caller EXCEPT ![c] = IF c = "scanner"
                                    THEN [@ EXCEPT !.pc = "chain", !.last = None,
                                                   !.max_pain = NoMaxPain]
                                    ELSE AtRest]

\* data_fetcher.py 146-200: the stock is found, or inserted and committed
\* (148-153), the payload checked, max pain computed and the previous row read;
\* a return at 158, 167 or 172 and an exception of calculate_max_pain (caught
\* at 244) end the call
process_query(c) ==
    /\ caller[c].pc = "process"
    /\ stocks' = GetOrCreateStock(stocks, caller[c].symbol)
    /\ LET data == caller[c].data
       IN  IF \/ data.records \in {"no_payload", "missing"}
              \/ calculate_max_pain(data).raised
              \/ data.underlyingValue = None
           THEN Leave(c)
           ELSE caller' = [caller EXCEPT
                    ![c].pc = "commit",
                    ![c].last = LastOIData(oi_data, caller[c].symbol),
                    ![c].max_pain = calculate_max_pain(data).value]
    /\ UNCHANGED <<oi_data, option_chain_data, events>>

\* data_fetcher.py 202-247: the changes, the label, the row and its commit;
\* a commit that raises is caught at 244 and leaves the table as it was
process_commit(c, commit_ok) ==
    /\ caller[c].pc = "commit"
    /\ LET data == caller[c].data
           last == caller[c].last
           ltp == IntOf(data.underlyingValue)
           total_call_oi == TotOI(data.ce_totOI)
           total_put_oi == TotOI(data.pe_totOI)
           change_in_ltp == Change(ltp, last, last[1].ltp)
           change_in_call_oi == Change(total_call_oi, last, last[1].call_oi)
           change_in_put_oi == Change(total_put_oi, last, last[1].put_oi)
       IN  oi_data' = IF ~commit_ok THEN oi_data
                      ELSE Append(oi_data,
                               [id |-> NextId(oi_data),
                                symbol |-> caller[c].symbol,
                                ltp |-> ltp,
                                change_in_ltp |-> change_in_ltp,
                                call_oi |-> total_call_oi,
                                change_in_call_oi |-> change_in_call_oi,
                                put_oi |-> total_put_oi,
                                change_in_put_oi |-> change_in_put_oi,
                                oi_interpretation |->
                                    Interpretation(change_in_ltp, change_in_call_oi),
                                max_pain |-> caller[c].max_pain,
                                event |-> caller[c].event])
    /\ Leave(c)
    /\ UNCHANGED <<stocks, option_chain_data, events>>

\* data_fetcher.py 264-301: the rows save_option_chain_data adds to its session
ChainEntries(symbol, data, event, first_id) ==
    LET option_data == StrikeRows(OptionChainOf(data))
    IN  [i \in 1..Len(option_data) |->
            [id |-> first_id + i - 1,
             symbol |-> symbol,
             strike_price |-> option_data[i].strikePrice,
             call_oi |-> OpenInterestOf(option_data[i].CE),
             put_oi |-> OpenInterestOf(option_data[i].PE),
             event |-> event]]

\* data_fetcher.py 267-301: what raises before the commit is reached
ChainRaises(data) ==
    \/ data.records = "null"
    \/ /\ data.records = "present"
       /\ data.expiryDates = "present"
       /\ (data.data = None \/ LoadRaises(OptionChainOf(data)))

\* data_fetcher.py 249-309: a second session and transaction of the scanner;
\* the stock is found, or inserted and committed (257-262); a return at 265 or
\* 271 and any exception (caught at 306) store no strike row
save_option_chain_data(c, commit_ok) ==
    /\ caller[c].pc = "chain"
    /\ stocks' = GetOrCreateStock(stocks, caller[c].symbol)
    /\ LET data == caller[c].data
       IN  option_chain_data' =
               IF \/ data.records \in {"no_payload", "missing"}
                  \/ ChainRaises(data)
                  \/ data.expiryDates # "present"
                  \/ ~commit_ok
               THEN option_chain_data
               ELSE option_chain_data \o
                        ChainEntries(caller[c].symbol, data, caller[c].event,
                                     NextId(option_chain_data))
    /\ caller' = [caller EXCEPT ![c] = AtRest]
    /\ UNCHANGED <<oi_data, events>>

\* a seeded database, the scanner loop at rest
InitSeeded ==
    /\ stocks = seed_stocks(<<>>)
    /\ meta = MetaWith(None, None)
    /\ InitLocals
    /\ InitFetch
    /\ InitPain
    /\ InitIngest
    /\ InitResample
    /\ InitChart

\* the ingestions of the scanner thread and of the route, one payload each
IngestNext ==
    \/ (\E c \in Callers, symbol \in Symbols, data \in Feed : Fetched(c, symbol, data))
            /\ UNCHANGED <<schedRest, histVars, fetchVars, painVars, resampleVars, chartVars>>
    \/ (\E c \in Callers : process_query(c))
            /\ UNCHANGED <<schedRest, histVars, fetchVars, painVars, resampleVars, chartVars>>
    \/ (\E c \in Callers, commit_ok \in BOOLEAN : process_commit(c, commit_ok))
            /\ UNCHANGED <<schedRest, histVars, fetchVars, painVars, resampleVars, chartVars>>
    \/ (\E commit_ok \in BOOLEAN : save_option_chain_data("scanner", commit_ok))
            /\ UNCHANGED <<schedRest, histVars, fetchVars, painVars, resampleVars, chartVars>>

IngestSpec == InitSeeded /\ [][IngestNext]_vars

\* data_fetcher.py 311-313: the module run as a script fetches the payload of
\* its symbol (NIFTY, the first of seed.py) and calls process_and_save_oi_data
\* with it, whatever the stocks table holds; like the route it saves no strike
\* rows, and it is modelled in the caller slot of the route
main(data) ==
    /\ caller["route"].pc = "idle"
    /\ Len(events) < MaxEvents
    /\ events' = Append(events, [symbol |-> SeedSymbols[1], data |-> data])
    /\ caller' = [caller EXCEPT !["route"] = [AtRest EXCEPT !.pc = "process",
                                                             !.symbol = SeedSymbols[1],
                                                             !.data = data,
                                                             !.event = Len(events) + 1]]
    /\ UNCHANGED <<stocks, oi_data, option_chain_data>>

\* runs of the script on any stocks table; the scanner and the route at rest
ScriptNext ==
    \/ (\E data \in Feed : main(data))
            /\ UNCHANGED <<schedRest, histVars, fetchVars, painVars, resampleVars, chartVars>>
    \/ process_query("route")
            /\ UNCHANGED <<schedRest, histVars, fetchVars, painVars, resampleVars, chartVars>>
    \/ (\E commit_ok \in BOOLEAN : process_commit("route", commit_ok))
            /\ UNCHANGED <<schedRest, histVars, fetchVars, painVars, resampleVars, chartVars>>

\* any stocks table: created by init_db alone, seeded, or loaded from a file
InitScript ==
    /\ stocks \in StockTables
    /\ meta = MetaWith(None, None)
    /\ InitLocals
    /\ InitFetch
    /\ InitPain
    /\ InitIngest
    /\ InitResample
    /\ InitChart

ScriptSpec == InitScript /\ [][ScriptNext]_vars

\* payloads that differ in the price and in the aggregate call open interest
PricedPayloads ==
    { Payload("present", Some(p), Some(c), Some(1), "present",
              Some(<<GoodRow(1), GoodRow(2)>>)) :
          p \in 1..MaxPrice, c \in 0..MaxOI }

\* the ingestions of one instrument on payloads that have every field, every
\* commit accepted
DeltaNext ==
    \/ (\E c \in Callers, data \in PricedPayloads : Fetched(c, SeedSymbols[1], data))
            /\ UNCHANGED <<schedRest, histVars, fetchVars, painVars, resampleVars, chartVars>>
    \/ (\E c \in Callers : process_query(c))
            /\ UNCHANGED <<schedRest, histVars, fetchVars, painVars, resampleVars, chartVars>>
    \/ (\E c \in Callers : process_commit(c, TRUE))
            /\ UNCHANGED <<schedRest, histVars, fetchVars, painVars, resampleVars, chartVars>>
    \/ save_option_chain_data("scanner", TRUE)
            /\ UNCHANGED <<schedRest, histVars, fetchVars, painVars, resampleVars, chartVars>>

DeltaSpec == InitSeeded /\ [][DeltaNext]_vars

\* ----------------------------------------------------------------- resample
\* A row of oi_data as stock_analysis reads it: id, date (a day number) and
\* timestamp, <<>> for NULL or a string that is no time, else <<m>> for the
\* "HH:MM" of minute m of the day.

\* app.py 37-49: "HH:MM" is no ISO date, so the time is put on today's date
\* whatever the date of the row; what is left to compare is the minute
parse_time(row) == row.timestamp

\* app.py 55: the key of the sort, datetime.min for a row without a time
MinKey == -1
SortKey(row) == IF parse_time(row) = None THEN MinKey ELSE IntOf(parse_time(row))

\* app.py 55: sorted() is stable: rows of equal key keep the order of the query
Before(rows, j, i) ==
    \/ SortKey(rows[j]) < SortKey(rows[i])
    \/ SortKey(rows[j]) = SortKey(rows[i]) /\ j < i
Sorted(rows) ==
    [k \in 1..Len(rows) |->
        rows[CHOOSE i \in 1..Len(rows) :
                 Cardinality({j \in 1..Len(rows) : Before(rows, j, i)}) = k - 1]]

\* app.py 61
bin_start(t) == (t \div bin_minutes) * bin_minutes
BinOf(row) == bin_start(IntOf(parse_time(row)))

\* app.py 57-64: the rows with a time, in sorted order, are appended to the
\* list of their bin; the bins keep the order of their first row, and each
\* gives its last row
Timed(rows) == SelectSeq(rows, LAMBDA r : parse_time(r) # None)
FirstOfBin(rows, i) == \A j \in 1..(i - 1) : BinOf(rows[j]) # BinOf(rows[i])
FirstRowOfBin(rows, b) ==
    rows[CHOOSE i \in 1..Len(rows) :
             /\ BinOf(rows[i]) = b
             /\ \A j \in 1..(i - 1) : BinOf(rows[j]) # b]
LastOfBin(rows, b) ==
    rows[CHOOSE i \in 1..Len(rows) :
             /\ BinOf(rows[i]) = b
             /\ \A j \in (i + 1)..Len(rows) : BinOf(rows[j]) # b]
RECURSIVE LastRows(_, _)
LastRows(rows, i) ==
    IF i > Len(rows) THEN <<>>
    ELSE IF FirstOfBin(rows, i)
    THEN <<LastOfBin(rows, BinOf(rows[i]))>> \o LastRows(rows, i + 1)
    ELSE LastRows(rows, i + 1)

\* app.py 66-67: the last sorted row is appended unless it ends the list
EnsureLast(rows, data_sorted) ==
    IF rows = <<>> \/ rows[Len(rows)].id # data_sorted[Len(data_sorted)].id
    THEN Append(rows, data_sorted[Len(data_sorted)])
    ELSE rows

\* app.py 68-70: one row left of several: all rows are returned
FallBack(rows, data_sorted) ==
    IF Len(rows) = 1 /\ Len(data_sorted) > 1 THEN data_sorted ELSE rows

\* app.py 53-70
Resample(rows) ==
    IF rows = <<>> THEN <<>>
    ELSE FallBack(EnsureLast(LastRows(Timed(Sorted(rows)), 1), Sorted(rows)),
                  Sorted(rows))

\* app.py 34, 51-70: the page of a stock is requested
stock_analysis ==
    /\ sampled = None
    /\ sampled' = Some(Resample(records))
    /\ UNCHANGED records

\* the rows of one stock, in id order; seed_from_csv stores any date and any
\* timestamp, the ingestion the date and the "HH:MM" of its clock
RecordRows ==
    [date : 1..MaxDays, timestamp : {None} \cup {Some(m) : m \in 0..MaxMinute}]
InitRecords ==
    /\ stocks = seed_stocks(<<>>)
    /\ meta = MetaWith(None, None)
    /\ InitLocals
    /\ InitFetch
    /\ InitPain
    /\ InitIngest
    /\ InitChart
    /\ \E n \in 0..MaxRecords :
           \E f \in [1..n -> RecordRows] :
               records = [i \in 1..n |-> [id |-> i, date |-> f[i].date,
                                          timestamp |-> f[i].timestamp]]
    /\ sampled = None

ResampleNext ==
    stock_analysis /\ UNCHANGED <<schedVars, histVars, fetchVars, painVars, ingestVars, chartVars>>

ResampleSpec == InitRecords /\ [][ResampleNext]_vars

\* ------------------------------------------------------ strike-level changes
\* A row of option_chain_data as generate_oi_change_chart reads it: id, date
\* (a day number), timestamp (the minute of its "HH:MM"), expiry_date,
\* strike_price, the open interests and the changes the source reported.

\* dashboard.py 445-448, 485: the "HH:MM" of the target time
target_time(args) ==
    IF args.time_range_minutes >= FullDay THEN 0
    ELSE args.minute - args.time_range_minutes

\* dashboard.py 451-454: today's rows, greatest id first
Reverse(rows) == [i \in 1..Len(rows) |-> rows[Len(rows) + 1 - i]]
latest_data(rows, args) == Reverse(SelectSeq(rows, LAMBDA r : r.date = args.date))

\* dashboard.py 460-466: the loop assigns latest_by_strike[strike] for every
\* row of the first row's expiry, so the entry that stays is the one of the
\* row that comes last in latest_data
EntryOfLast(rows, k) ==
    rows[CHOOSE i \in 1..Len(rows) :
             /\ rows[i].strike_price = k
             /\ \A j \in (i + 1)..Len(rows) : rows[j].strike_price # k]
OfExpiry(rows, expiry) == SelectSeq(rows, LAMBDA r : r.expiry_date = expiry)
StrikesIn(rows) == {rows[i].strike_price : i \in 1..Len(rows)}
latest_by_strike(latest) ==
    [k \in StrikesIn(OfExpiry(latest, latest[1].expiry_date)) |->
        EntryOfLast(OfExpiry(latest, latest[1].expiry_date), k)]

\* dashboard.py 470-474: today's rows of the current expiry
past_data(rows, args, current_expiry) ==
    OfExpiry(SelectSeq(rows, LAMBDA r : r.date = args.date), current_expiry)

\* dashboard.py 485-498: the latest timestamp at or before the target time,
\* and the first timestamp when there is none
TimesOf(rows) == {rows[i].timestamp : i \in 1..Len(rows)}
SetMax(S) == CHOOSE x \in S : \A y \in S : y <= x
SetMin(S) == CHOOSE x \in S : \A y \in S : x <= y
past_time_key(times, target) ==
    IF {t \in times : t <= target} # {} THEN SetMax({t \in times : t <= target})
    ELSE SetMin(times)

\* dashboard.py 477-482, 500: the rows of the past timestamp by strike.  The
\* query at 470 has no ORDER BY; of two rows of one timestamp and strike
\* either may be the one that stays
PastEntries(past, key, k) ==
    {past[i] : i \in {j \in 1..Len(past) :
                          past[j].timestamp = key /\ past[j].strike_price = k}}
NoEntry == [id |-> 0]

\* dashboard.py 507-523: the changes of one strike
Changes(current_entry, past_entry) ==
    IF past_entry # NoEntry
    THEN [current_id |-> current_entry.id,
          past_id |-> past_entry.id,
          call_change |-> current_entry.call_oi - past_entry.call_oi,
          put_change |-> current_entry.put_oi - past_entry.put_oi]
    ELSE [current_id |-> current_entry.id,
          past_id |-> 0,
          call_change |-> current_entry.call_oi_change,
          put_change |-> current_entry.put_oi_change]

\* dashboard.py 427-527: the chart of a stock is requested; after the changes
\* are computed the current price is fetched from the source (526-527)
generate_oi_change_chart ==
    /\ chart = None
    /\ chart_args.symbol # ""
    /\ LET latest == latest_data(option_chain_data, chart_args)
       IN  IF latest = <<>>
           THEN /\ chart' = Some([kind |-> "no_data"])
                /\ UNCHANGED fetchVars
           ELSE LET current == latest_by_strike(latest)
                    past == past_data(option_chain_data, chart_args,
                                      latest[1].expiry_date)
                    key == past_time_key(TimesOf(past), target_time(chart_args))
                IN  /\ \E past_by_strike \in
                            [DOMAIN current -> {NoEntry} \cup
                                 UNION {PastEntries(past, key, k) : k \in DOMAIN current}] :
                        /\ \A k \in DOMAIN current :
                               IF PastEntries(past, key, k) = {}
                               THEN past_by_strike[k] = NoEntry
                               ELSE past_by_strike[k] \in PastEntries(past, key, k)
                        /\ chart' = Some([kind |-> "changes",
                                          by_strike |-> [k \in DOMAIN current |->
                                              Changes(current[k], past_by_strike[k])]])
                    /\ fetch_oi_data(chart_args.symbol)
    /\ UNCHANGED <<chart_args, option_chain_data>>

\* the strike rows of one stock: sampling events in the order of the clock,
\* of one or the other expiry
ChartStrikes == {1, 2}
ChartRows ==
    [date : 1..MaxDays, timestamp : 0..MaxMinute, expiry_date : {"E1", "E2"},
     strike_price : ChartStrikes, call_oi : 0..MaxOI]
ClockOrder(f) ==
    \A i, j \in DOMAIN f :
        i < j => \/ f[i].date < f[j].date
                 \/ f[i].date = f[j].date /\ f[i].timestamp <= f[j].timestamp

\* a database with strike rows of stock A; the chart is requested at the end
\* of the last day for one of the time ranges
InitChartRows ==
    /\ stocks = seed_stocks(<<>>)
    /\ meta = MetaWith(None, None)
    /\ InitLocals
    /\ InitFetch
    /\ InitPain
    /\ oi_data = <<>>
    /\ events = <<>>
    /\ caller = [c \in Callers |-> AtRest]
    /\ InitResample
    /\ \E n \in 0..MaxRecords :
           \E f \in [1..n -> ChartRows] :
               /\ ClockOrder(f)
               /\ option_chain_data =
                      [i \in 1..n |-> [id |-> i,
                                       date |-> f[i].date,
                                       timestamp |-> f[i].timestamp,
                                       expiry_date |-> f[i].expiry_date,
                                       strike_price |-> f[i].strike_price,
                                       call_oi |-> f[i].call_oi,
                                       put_oi |-> MaxOI - f[i].call_oi,
                                       call_oi_change |-> 1,
                                       put_oi_change |-> 1]]
    /\ \E n \in (1..MaxMinute) \cup {FullDay} :
           chart_args = [symbol |-> SeedSymbols[1], time_range_minutes |-> n,
                         date |-> MaxDays, minute |-> MaxMinute]
    /\ chart = None

ChartNext ==
    generate_oi_change_chart
        /\ UNCHANGED <<schedVars, histVars, painVars, oi_data, events, caller, resampleVars>>

ChartSpec == InitChartRows /\ [][ChartNext]_vars

\* a strike row and a snapshot row of stock A on the day of the request
OneChartRow ==
    [id |-> 1, date |-> MaxDays, timestamp |-> 0, expiry_date |-> "E1",
     strike_price |-> 1, call_oi |-> 1, put_oi |-> 1,
     call_oi_change |-> 1, put_oi_change |-> 1]
OneRecord == [id |-> 1, date |-> MaxDays, timestamp |-> Some(0)]

\* a database with or without rows of stock A, the two pages not yet requested
InitQueries ==
    /\ stocks = seed_stocks(<<>>)
    /\ meta = MetaWith(None, None)
    /\ InitLocals
    /\ InitFetch
    /\ InitPain
    /\ oi_data = <<>>
    /\ events = <<>>
    /\ caller = [c \in Callers |-> AtRest]
    /\ records \in {<<>>, <<OneRecord>>}
    /\ sampled = None
    /\ option_chain_data \in {<<>>, <<OneChartRow>>}
    /\ \E n \in (1..MaxMinute) \cup {FullDay} :
           chart_args = [symbol |-> SeedSymbols[1], time_range_minutes |-> n,
                         date |-> MaxDays, minute |-> MaxMinute]
    /\ chart = None

\* the two aggregator pages, the scanner at rest; the requests of the chart's
\* fetch_oi_data go on in requests_get_with_retry
QueryNext ==
    \/ stock_analysis
           /\ UNCHANGED <<schedVars, histVars, fetchVars, painVars, ingestVars, chartVars>>
    \/ generate_oi_change_chart
           /\ UNCHANGED <<schedVars, histVars, painVars, oi_data, events, caller, resampleVars>>
    \/ UpstreamGet
           /\ UNCHANGED <<schedVars, histVars, painVars, ingestVars, resampleVars, chartVars>>
    \/ RaiseLast
           /\ UNCHANGED <<fetchLog, schedVars, histVars, painVars, ingestVars, resampleVars, chartVars>>

QuerySpec == InitQueries /\ [][QueryNext]_vars

\* ------------------------------------------------------------------ claims
cursor == meta["last_scan_index"]
MidCycle == pc \in {"process", "commit_cursor"}
NonEmptyMembers(b) == {i \in 1..Len(b) : b[i].symbol # ""}
\* the step is a kill and restart of the process
IsCrashRestart == pc' = "start" /\ runtime_interval' = None
CeilDiv(a, b) == (a + b - 1) \div b
NoDuplicates(q) == \A i, j \in 1..Len(q) : i # j => q[i] # q[j]

\* C1: the stored cursor changes at most once per cycle, only in the commit
\* step after the loop has gone through the whole batch, never between two
\* instruments; at every point of a cycle before the commit (where a crash
\* may stop the process) the stored cursor is the row read at the start of the
\* cycle, and the batch selected from the stored state is the cycle's batch.
C1_CursorWrittenOnlyAtCommit ==
    /\ [][cursor' # cursor =>
            /\ pc \in {"commit_cursor", "fallback"}
            /\ todo = {}
            /\ cursor = last_index_val]_vars
    /\ [](MidCycle =>
            /\ cursor = last_index_val
            /\ batch = SelectBatch(stocks, ConfigOr(cursor, 0) % Len(stocks),
                                   runtime_batch, Len(stocks)))
\* C1 witness: between two instruments of a batch, in a cycle begun after an
\* earlier one that never committed
C1_Witness ==
    /\ pc = "process" /\ processed >= 1 /\ todo # {}
    /\ cycle >= 2 /\ meta["last_run_time"] = None

\* C2: counting the selections in query order, no instrument is selected a
\* second time before all T have been selected, and after ceil(T/B) cycles all
\* T have been selected.
C2_RotationFair ==
    /\ NoDuplicates(selected)
    /\ (Len(stocks) > 0 /\ nsel >= CeilDiv(Len(stocks), ConfigOr(meta["oi_batch_size"], batch_size)))
          => Len(selected) = Len(stocks)

\* C3: the batch holds exactly min(batch_size, T) rows, those at positions
\* (start + i) mod T of the id-ordered table, none twice.
C3_BatchIsWrappedSlice ==
    MidCycle =>
        /\ Len(batch) = Min(runtime_batch, total)
        /\ \A i \in 1..Len(batch) : batch[i] = stocks[((start_idx + i - 1) % total) + 1]
        /\ NoDuplicates(Ids(batch))

\* C4: the cursor stored by the commit is (start + number of batch members)
\* mod T, every member of the batch counted.
C4_CursorCountsEveryMember ==
    pc = "commit_time" => cursor = Some((start_idx + Len(batch)) % total)

\* C5: whenever the stocks table is not empty, the stored cursor is below the
\* number of its rows.
C5_StoredCursorInRange ==
    (Len(stocks) > 0 /\ cursor # None) => IntOf(cursor) \in 0..(Len(stocks) - 1)

\* C5 as the code has it: a commit stores a cursor in [0, total) for the count
\* read at the start of its cycle, and the start offset of a cycle, the stored
\* cursor modulo the current count, is in [0, count); the stored value itself
\* may be at or above the count after rows have been deleted.
C5_CommittedCursorInRange ==
    /\ [][cursor' # cursor =>
            /\ total > 0
            /\ IntOf(cursor') \in 0..(total - 1)]_vars
    /\ [](MidCycle =>
            /\ total = Len(stocks)
            /\ start_idx \in 0..(Len(stocks) - 1)
            /\ start_idx = ConfigOr(cursor, 0) % Len(stocks))
\* C5 witness: a cycle runs on a table that has shrunk to or below the stored cursor
C5_Witness ==
    /\ pc = "process" /\ processed >= 1
    /\ cursor # None /\ IntOf(cursor) >= Len(stocks)

\* C6: a cycle that reaches the commit has counted at least one instrument, so
\* the cursor moves on from the batch just handled.
C6_CommitAdvances ==
    pc = "commit_cursor" => processed >= 1

\* C7: the scanner loop never ends.
C7_LoopNeverEnds == pc # "dead"

\* C8: a failed attempt does not end the loop: the loop leaves "process" only
\* for the commit (or by a kill of the process), and at the commit every member
\* of the batch has had its iteration and every member with a symbol has been
\* attempted, whatever failed.
C8_FailureDoesNotAbortBatch ==
    /\ [][pc = "process" => (pc' \in {"process", "commit_cursor"} \/ IsCrashRestart)]_vars
    /\ [](pc = "commit_cursor" =>
            /\ todo = {}
            /\ processed = Cardinality(NonEmptyMembers(batch)))
\* C8 witness: the first attempt of a cycle failed, a later one was made and
\* the cursor has been committed
C8_Witness ==
    /\ pc = "commit_time" /\ first_failure = Some(1) /\ processed >= 2
    /\ cursor # last_index_val

\* C9: a cycle begins with the stored parameters (the process default where the
\* row is missing or its read fails) and selects its batch with them; no step
\* from there to the sleep, a write to the meta table included, changes the
\* cycle's interval, batch size or batch; the sleep is computed from the
\* interval the cycle began with.
C9_ConfigReadOncePerCycle ==
    [][ /\ (pc = "start" /\ pc' \in {"process", "commit_cursor"}) =>
              /\ runtime_batch' \in {ConfigOr(meta["oi_batch_size"], batch_size), batch_size}
              /\ runtime_interval' \in {Some(ConfigOr(meta["oi_scan_interval"], interval_seconds)),
                                        Some(interval_seconds)}
              /\ batch' = SelectBatch(stocks, start_idx', runtime_batch', total')
        /\ (pc \in {"process", "commit_cursor", "commit_time", "fallback"} /\ ~IsCrashRestart) =>
              UNCHANGED <<runtime_batch, runtime_interval, batch>>
        /\ (pc = "sleep" /\ pc' = "start" /\ ~IsCrashRestart) =>
              /\ runtime_interval' = runtime_interval
              /\ \E elapsed \in 0..MaxElapsed :
                    sleep_for' = Some(Max(0, IntOf(runtime_interval) - elapsed)) ]_vars
\* C9 witness: a cycle that began with the stored batch size 1 and interval 1
\* has committed its batch of one while the meta table holds 3 and 0
C9_Witness ==
    /\ pc = "commit_time"
    /\ runtime_batch = 1 /\ Len(batch) = 1 /\ runtime_interval = Some(1)
    /\ meta["oi_batch_size"] = Some(3) /\ meta["oi_scan_interval"] = Some(0)

\* C10: a call issues at most max_retries requests, and a request answered
\* with status 200 is the last of its call: the call has returned that response
\* and raised nothing.
C10_AtMostFourStopsAtFirstSuccess ==
    /\ Len(requests) <= max_retries
    /\ \A k \in 1..Len(requests) :
          requests[k] = "200" =>
              /\ k = Len(requests)
              /\ g_pc = "returned"
              /\ response = Some(k)
              /\ raised = None
    /\ g_pc = "returned" => requests # <<>> /\ requests[Len(requests)] = "200"
\* C10 witness: every attempt but the last failed, the last returned status 200
C10_Witness ==
    /\ g_pc = "returned" /\ Len(requests) = max_retries
    /\ \A k \in 1..(max_retries - 1) : requests[k] \in {"error_status", "exception"}
    /\ response = Some(max_retries)

\* C11: a call that ends with every attempt failed raises the exception of
\* its last attempt, and returns nothing.
C11_RaisesLastCause ==
    g_pc = "raised" => /\ raised = Some(Len(requests))
                       /\ response = None

\* C12: once a call has returned a symbol's option chain, no later request
\* for that symbol goes upstream (the model lets no time pass, so every call
\* is within the TTL window of the one before).
C12_OneUpstreamCallPerWindow ==
    [][\A s \in have_payload : upstream'[s] = upstream[s]]_vars

\* the payload of the sampling event a stored row belongs to
PayloadOf(row) == events[row.event].data
Stored(table) == {table[i] : i \in 1..Len(table)}
HasRequiredFields(data) ==
    /\ data.records = "present"
    /\ data.underlyingValue # None
    /\ data.ce_totOI # None
    /\ data.pe_totOI # None
    /\ data.expiryDates = "present"

\* C13: a payload that lacks the current price, an aggregate open interest of
\* a side, or the expiry list stores nothing: every row of the Snapshot table
\* and of the StrikeSnapshot table comes from a sampling event whose payload
\* has all of these fields.
C13_IncompletePayloadStoresNothing ==
    \A row \in Stored(oi_data) \cup Stored(option_chain_data) :
        HasRequiredFields(PayloadOf(row))

\* the Snapshots of the instrument of row i that have a smaller id
Earlier(i) == {j \in 1..(i - 1) : oi_data[j].symbol = oi_data[i].symbol}
Previous(i) == oi_data[CHOOSE j \in Earlier(i) : \A k \in Earlier(i) : k <= j]

\* C14: the three changes stored with a Snapshot are its value minus the value
\* of the Snapshot of the same instrument with the greatest id below its own,
\* and all zero when the instrument has no such Snapshot.
C14_ChangesAgainstGreatestId ==
    \A i \in 1..Len(oi_data) :
        IF Earlier(i) = {}
        THEN /\ oi_data[i].change_in_ltp = 0
             /\ oi_data[i].change_in_call_oi = 0
             /\ oi_data[i].change_in_put_oi = 0
        ELSE /\ oi_data[i].change_in_ltp = oi_data[i].ltp - Previous(i).ltp
             /\ oi_data[i].change_in_call_oi = oi_data[i].call_oi - Previous(i).call_oi
             /\ oi_data[i].change_in_put_oi = oi_data[i].put_oi - Previous(i).put_oi

Sign(n) == IF n > 0 THEN 1 ELSE IF n < 0 THEN -1 ELSE 0
LabelOfSigns(sl, sc) ==
    CASE sl = 1 /\ sc = 1 -> "Long Buildup"
      [] sl = -1 /\ sc = 1 -> "Short Buildup"
      [] sl = -1 /\ sc = -1 -> "Long Unwinding"
      [] sl = 1 /\ sc = -1 -> "Short Covering"
      [] OTHER -> ""

\* C15: the label stored with a Snapshot is the one of the signs of its
\* change_in_ltp and change_in_call_oi: (+,+) Long Buildup, (-,+) Short
\* Buildup, (-,-) Long Unwinding, (+,-) Short Covering, and it is empty
\* exactly when one of the two changes is zero.
C15_LabelFollowsSigns ==
    \A row \in Stored(oi_data) :
        /\ row.oi_interpretation =
               LabelOfSigns(Sign(row.change_in_ltp), Sign(row.change_in_call_oi))
        /\ row.oi_interpretation = "" <=>
               (row.change_in_ltp = 0 \/ row.change_in_call_oi = 0)

\* a Snapshot whose price and call open interest are both above those of the
\* instrument's previous Snapshot is stored as Long Buildup
C15_Witness ==
    \E i \in 1..Len(oi_data) :
        /\ Earlier(i) # {}
        /\ oi_data[i].ltp > Previous(i).ltp
        /\ oi_data[i].call_oi > Previous(i).call_oi
        /\ oi_data[i].change_in_ltp > 0
        /\ oi_data[i].change_in_call_oi > 0
        /\ oi_data[i].oi_interpretation = "Long Buildup"

\* the StrikeSnapshot rows a payload has: one per row of the first expiry
\* that has a strike
StrikeCount(data) ==
    IF data.records = "present" /\ data.expiryDates = "present" /\ data.data # None
    THEN Len(StrikeRows(OptionChainOf(data)))
    ELSE 0
SnapshotsOf(e) == {row \in Stored(oi_data) : row.event = e}
StrikeSnapshotsOf(e) == {row \in Stored(option_chain_data) : row.event = e}

\* C16: in every state a reader may see, a sampling event that has its
\* Snapshot has all its StrikeSnapshot rows, and one that has StrikeSnapshot
\* rows has its Snapshot.
C16_SnapshotWithItsStrikes ==
    \A e \in 1..Len(events) :
        /\ SnapshotsOf(e) # {} =>
               Cardinality(StrikeSnapshotsOf(e)) = StrikeCount(events[e].data)
        /\ StrikeSnapshotsOf(e) # {} => SnapshotsOf(e) # {}

\* the rows in the order of their date, time of day and id
Later(a, b) ==
    \/ a.date > b.date
    \/ a.date = b.date /\ IntOf(a.timestamp) > IntOf(b.timestamp)
    \/ a.date = b.date /\ a.timestamp = b.timestamp /\ a.id > b.id
ChronologicallyLast(rows) ==
    rows[CHOOSE i \in 1..Len(rows) : \A j \in 1..Len(rows) : j # i => Later(rows[i], rows[j])]
AllTimed(rows) == \A i \in 1..Len(rows) : rows[i].timestamp # None

\* C20: for every non-empty sequence of Snapshots, each with its date and time
\* of day, the resample ends with the chronologically last row of the input.
C20_EndsWithLastRecord ==
    (sampled # None /\ records # <<>> /\ AllTimed(records)) =>
        /\ sampled[1] # <<>>
        /\ sampled[1][Len(sampled[1])] = ChronologicallyLast(records)

\* the strike table of the payload, and the loss of the option writers at
\* strike k as the specification defines it
TableOf(data) == data.data[1]
TableStrikes(data) == {TableOf(data)[i].strikePrice : i \in 1..Len(TableOf(data))}
RECURSIVE WriterLossFrom(_, _, _)
WriterLossFrom(rows, k, i) ==
    IF i > Len(rows) THEN 0
    ELSE (IF rows[i].strikePrice < k THEN (k - rows[i].strikePrice) * rows[i].CE.oi
          ELSE IF rows[i].strikePrice > k THEN (rows[i].strikePrice - k) * rows[i].PE.oi
          ELSE 0) + WriterLossFrom(rows, k, i + 1)
WriterLoss(data, k) == WriterLossFrom(TableOf(data), k, 1)
MinimalStrikes(data) ==
    {k \in TableStrikes(data) : \A j \in TableStrikes(data) : WriterLoss(data, k) <= WriterLoss(data, j)}
Computed == max_pain # None
\* the payload has a strike table: rows of the first expiry, the strikes
\* present and distinct, a number on both sides of each
HasStrikeTable(data) ==
    /\ data.records = "present" /\ data.expiryDates = "present"
    /\ data.data # None /\ TableOf(data) # <<>>
    /\ \A i \in 1..Len(TableOf(data)) :
          /\ TableOf(data)[i].expiryDate = "E1"
          /\ TableOf(data)[i].strikePrice # 0
          /\ TableOf(data)[i].CE.oi_kind = "value"
          /\ TableOf(data)[i].PE.oi_kind = "value"
          /\ \A j \in 1..Len(TableOf(data)) :
                i # j => TableOf(data)[i].strikePrice # TableOf(data)[j].strikePrice

\* C17: for a strike table with numbers on both sides of every strike, the
\* calculator returns a strike of the table whose writer loss is minimal among
\* the strikes of the table; for a table of one strike, that strike.
C17_MaxPainMinimisesLoss ==
    (Computed /\ HasStrikeTable(full_data)) =>
        /\ ~max_pain[1].raised
        /\ max_pain[1].value \in MinimalStrikes(full_data)
        /\ Len(TableOf(full_data)) = 1 => max_pain[1].value = TableOf(full_data)[1].strikePrice
\* C17 witness: three strikes with open interest, the only minimum at the strike in
\* the middle of the payload
C17_Witness ==
    /\ Computed /\ HasStrikeTable(full_data)
    /\ Len(TableOf(full_data)) = 3
    /\ MinimalStrikes(full_data) = {TableOf(full_data)[2].strikePrice}
    /\ max_pain[1].value = TableOf(full_data)[2].strikePrice
    /\ WriterLoss(full_data, max_pain[1].value) > 0

\* C18: of the strikes with the minimal writer loss the calculator returns the
\* lowest, in whatever order the payload lists the strikes.
C18_TieGoesToLowestStrike ==
    (Computed /\ HasStrikeTable(full_data)) =>
        \A k \in MinimalStrikes(full_data) : max_pain[1].value <= k

\* C19 (calculator): no payload makes calculate_max_pain raise.
C19_MaxPainNeverRaises ==
    Computed => ~max_pain[1].raised

\* a row lies on a boundary of its bin, and no two rows share a date and a bin
OnBoundary(row) ==
    row.timestamp # None /\ IntOf(row.timestamp) = bin_start(IntOf(row.timestamp))
OnePerBucket(rows) ==
    \A i, j \in 1..Len(rows) :
        (i # j /\ rows[i].date = rows[j].date) => BinOf(rows[i]) # BinOf(rows[j])
InTimeOrder(rows) == \A i, j \in 1..Len(rows) : i < j => Later(rows[j], rows[i])
Resampled == sampled # None

\* C21: an input in the order of its times, every row on a bin boundary and
\* one row per bucket, comes out of the resample unchanged.
C21_AlignedInputUnchanged ==
    (/\ Resampled
     /\ \A i \in 1..Len(records) : OnBoundary(records[i])
     /\ OnePerBucket(records)
     /\ InTimeOrder(records)) => sampled[1] = records

\* the rows are of one date
OneDate(rows) == \A i, j \in 1..Len(rows) : rows[i].date = rows[j].date
BinsOf(rows) == {BinOf(rows[i]) : i \in 1..Len(rows)}
InBin(rows, b) == {i \in 1..Len(rows) : BinOf(rows[i]) = b}
SameRows(a, b) ==
    /\ Len(a) = Len(b)
    /\ \A i \in 1..Len(a) : \E j \in 1..Len(b) : a[i] = b[j]
    /\ \A j \in 1..Len(b) : \E i \in 1..Len(a) : a[i] = b[j]

\* one row per non-empty bin of the input, none later in its bin than it, the
\* bins ascending
LastPerBin(out, rows) ==
    /\ \A k \in 1..Len(out) : \E i \in 1..Len(rows) : out[k] = rows[i]
    /\ \A b \in BinsOf(rows) : Cardinality(InBin(out, b)) = 1
    /\ \A k \in 1..Len(out) : \A i \in InBin(rows, BinOf(out[k])) :
           IntOf(rows[i].timestamp) <= IntOf(out[k].timestamp)
    /\ \A k \in 1..(Len(out) - 1) : BinOf(out[k]) < BinOf(out[k + 1])

Charted == chart # None /\ chart[1].kind = "changes"
TodayRows == SelectSeq(option_chain_data, LAMBDA r : r.date = chart_args.date)
CurrentRows == OfExpiry(TodayRows, TodayRows[Len(TodayRows)].expiry_date)
RowsOfStrike(k) == {CurrentRows[i] : i \in {j \in 1..Len(CurrentRows) :
                                               CurrentRows[j].strike_price = k}}
Newest(S) == CHOOSE r \in S : \A q \in S : q.id <= r.id
Earliest(S) ==
    CHOOSE r \in S : \A q \in S :
        r.timestamp < q.timestamp \/ (r.timestamp = q.timestamp /\ r.id <= q.id)
Qualifying(k) == {r \in RowsOfStrike(k) : r.timestamp >= target_time(chart_args)}

\* C23: for every strike the change over the last N minutes is the open
\* interest of the most recent row minus that of the earliest row with a
\* timestamp at or after now - N, for calls and for puts, and (0, 0) when no
\* row or one row has such a timestamp.
C23_RollingChange ==
    Charted => \A k \in DOMAIN chart[1].by_strike :
        IF Cardinality(Qualifying(k)) <= 1
        THEN /\ chart[1].by_strike[k].call_change = 0
             /\ chart[1].by_strike[k].put_change = 0
        ELSE /\ chart[1].by_strike[k].call_change =
                    Newest(RowsOfStrike(k)).call_oi - Earliest(Qualifying(k)).call_oi
             /\ chart[1].by_strike[k].put_change =
                    Newest(RowsOfStrike(k)).put_oi - Earliest(Qualifying(k)).put_oi

\* C30: the current entry of every strike is today's row of that strike and
\* of the current expiry with the greatest id, and the change reported against
\* a baseline row is the open interest of that row minus the baseline's.
C30_CurrentIsNewestEntry ==
    Charted => \A k \in DOMAIN chart[1].by_strike :
        /\ chart[1].by_strike[k].current_id = Newest(RowsOfStrike(k)).id
        /\ \A past \in RowsOfStrike(k) :
               chart[1].by_strike[k].past_id = past.id =>
                   /\ chart[1].by_strike[k].call_change =
                          Newest(RowsOfStrike(k)).call_oi - past.call_oi
                   /\ chart[1].by_strike[k].put_change =
                          Newest(RowsOfStrike(k)).put_oi - past.put_oi

\* C24: no step of the resample page or of the strike-level change chart
\* changes the stocks, the Snapshots, the StrikeSnapshots, the cursor or the
\* configuration, and none sends a request to the upstream source.
C24_QueriesHaveNoEffect ==
    [][/\ stocks' = stocks
       /\ oi_data' = oi_data
       /\ option_chain_data' = option_chain_data
       /\ meta' = meta
       /\ upstream' = upstream]_vars

\* ---------------------------------------------------------------- claim C25
\* C25: the commit of a cycle is atomic.  Every step that changes the cursor
\* row leaves last_run_time holding the time of the same cycle, and every step
\* that changes last_run_time leaves the cursor at (start + processed) mod T
\* of the same cycle, so that no reader and no crash point sees one of the two
\* rows of a cycle without the other.
C25_CommitIsAtomic ==
    [][/\ meta'["last_scan_index"] # meta["last_scan_index"]
            => meta'["last_run_time"] = Some(cycle)
       /\ meta'["last_run_time"] # meta["last_run_time"]
            => meta'["last_scan_index"] = Some(NewIndex(start_idx, processed, total))]_vars

\* ---------------------------------------------------------------- claim C26
\* caller c has read the previous row of its instrument and not yet committed
InFlight(c) == caller[c].pc = "commit"

\* C26: at most one ingestion of an instrument is between the read of the
\* previous row and the commit of the new one: the scanner and the route are
\* never both there for the same instrument with the same previous row.
C26_OneIngestionInFlight ==
    \A c, d \in Callers :
        (c # d /\ InFlight(c) /\ InFlight(d) /\ caller[c].symbol = caller[d].symbol)
            => caller[c].last # caller[d].last

\* ---------------------------------------------------------------- claim C27
\* every call of fetch_oi_data so far has returned on its first request
AllAccepted ==
    /\ g_pc = "returned"
    /\ \A s \in Symbols : upstream[s] = fetched[s]

\* C27: the identity endpoint is called before the first data request and not
\* again while its token is accepted: after any number of fetches that all
\* succeeded the homepage has been requested once.
C27_OneIdentityCall == AllAccepted => cookie_requests = 1

\* ---------------------------------------------------------------- claim C28
\* the validation of process_and_save_oi_data (data_fetcher.py 156-172) lets
\* the payload pass
PassesValidation(data) ==
    /\ data.records \notin {"no_payload", "missing"}
    /\ ~calculate_max_pain(data).raised
    /\ data.underlyingValue # None

\* caller c takes the step that checks its payload
Checks(c) == caller[c].pc = "process" /\ caller'[c].pc # "process"

\* C28: a stocks row is created only by a successful ingestion of an unseen
\* symbol.  The step that rejects a payload leaves the stocks table as it was,
\* and no step changes the symbol of a row that exists.
C28_RejectedPayloadCreatesNoStock ==
    [][/\ \A c \in Callers :
              (Checks(c) /\ ~PassesValidation(caller[c].data)) => stocks' = stocks
       /\ \A i \in 1..Len(stocks), j \in 1..Len(stocks') :
              stocks[i].id = stocks'[j].id => stocks[i].symbol = stocks'[j].symbol]_vars

\* ---------------------------------------------------------------- claim C29
\* C29: the session a cycle opens is closed before the cycle sleeps, on every
\* exit path: when the scanner is about to sleep, and when it is about to
\* begin the next cycle, no session of it is open.
C29_SessionClosedBeforeSleep == pc \in {"sleep", "start"} => ~db_open

====
